---- MODULE Spec2Model ----
(***************************************************************************)
(* Model of dbt_common/events/contextvars.py: the registry of dynamically  *)
(* named contextvars.ContextVar objects, the prefixed set / get / unset /  *)
(* reset / clear operations, and the log_contextvars / task_contextvars    *)
(* context managers.                                                       *)
(*                                                                         *)
(* A string is a sequence of chunks, so that prefix + key is \o and        *)
(* str.startswith is a test on the leading chunks.  A ContextVar is its    *)
(* index in cvars (object identity).  A contextvars.Context is a function  *)
(* from the ContextVars that were set in it to their values; its DOMAIN is *)
(* what "for k in ctx" iterates over.                                      *)
(***************************************************************************)
EXTENDS Naturals, Sequences, FiniteSets

\* ------------------------------------------------------------ bounds
\* Calls (set / unset / reset / clear, and with statements entered) made in
\* one run.
MaxCalls == 3

\* ------------------------------------------------------------ constants
LOG_PREFIX == <<"log_">>
TASK_PREFIX == <<"task_">>

Prefixes == {LOG_PREFIX, TASK_PREFIX}
\* A prefix argument that the name of _CURRENT_NODE, 'current_node', starts with.
CURRENT_PREFIX == <<"current_">>
\* The keyword names callers use under each prefix.
KeysFor(prefix) ==
    IF prefix = LOG_PREFIX THEN {<<"x">>, <<"y">>}
    ELSE IF prefix = CURRENT_PREFIX THEN {<<"node">>}
    ELSE {<<"x">>}
Keys == UNION {KeysFor(p) : p \in Prefixes}
\* Fully qualified names, f"{prefix}{k}".
Names == {p \o k : p \in Prefixes, k \in Keys} \cup {CURRENT_PREFIX \o <<"node">>}

\* The default of every registry ContextVar, and the value unset stores.
Ellipsis == "Ellipsis"
None == "None"
\* Values a caller may pass (kwargs: Any): Ellipsis is an ordinary object.
Values == {None, "a", Ellipsis}
\* The nodes passed to set_current_node (Optional['ManifestNode']).
Nodes == {None, "n1"}
\* contextvars.Token.MISSING: the variable had no value in the Context.
MISSING == "MISSING"

\* Execution contexts (one contextvars.Context each).
Ctxs == {"main", "child"}

\* No ContextVar: the registry lookup raises KeyError.
NoVar == 0

\* The values passed under each prefix.
ValuesFor(prefix) == IF prefix = LOG_PREFIX THEN Values ELSE {"a"}
\* kwargs arguments: every mapping of one key, and two mappings of two.
Kwargs(prefix) ==
    {<<<<k, v>>>> : k \in KeysFor(prefix), v \in ValuesFor(prefix)}
    \cup {kw \in {<<<<<<"x">>, "a">>, <<<<"y">>, None>>>>,
                   <<<<<<"y">>, Ellipsis>>, <<<<"x">>, None>>>>} :
            KeysFor(prefix) = {<<"x">>, <<"y">>}}
\* kwargs of the with statements
ScopeKwargs(prefix) ==
    {kw \in Kwargs(prefix) : kw[1][1] = <<"x">> \/ Len(kw) = 2}
\* keys arguments
KeySeqs(prefix) ==
    {<<k>> : k \in KeysFor(prefix)}
    \cup {ks \in {<<<<"x">>, <<"y">>>>} : KeysFor(prefix) = {<<"x">>, <<"y">>}}

VARIABLES
    _context_vars,  \* the registry: name -> ContextVar (NoVar: no entry)
    cvars,          \* every ContextVar object created so far: [name, default]
    iterOrder,      \* the order in which a Context iterates over ContextVars
    ctx,            \* ctx[c]: the Context of execution context c
    alive,          \* the execution contexts that exist
    frames,         \* frames[c]: the open log_/task_contextvars scopes of c
    held,           \* held[c]: the Token mapping the caller keeps
    raised,         \* raised[c]: the exception the last call of c raised
    pc,             \* pc[c]: where c is inside set_contextvars (threads)
    visible,        \* visible[c][prefix]: what get_contextvars(prefix) returns in c
    last,           \* history: the last call made
    calls           \* history: number of low-level calls made

vars == <<_context_vars, cvars, iterOrder, ctx, alive, frames, held, raised,
          pc, visible, last, calls>>

\* ------------------------------------------------------------ helpers
Put(f, k, v) == [x \in (DOMAIN f) \cup {k} |-> IF x = k THEN v ELSE f[x]]
Drop(f, k) == [x \in (DOMAIN f) \ {k} |-> f[x]]
Restrict(f, keys) == [x \in (DOMAIN f) \cap keys |-> f[x]]

\* name.startswith(prefix)
startswith(name, prefix) ==
    /\ Len(prefix) <= Len(name)
    /\ SubSeq(name, 1, Len(prefix)) = prefix
\* name[prefix_len:]
strip(name, prefix) == SubSeq(name, Len(prefix) + 1, Len(name))

KeysOf(kwargs) == {kwargs[i][1] : i \in DOMAIN kwargs}
ValueOf(kwargs, k) ==
    LET i == CHOOSE j \in DOMAIN kwargs : kwargs[j][1] = k IN kwargs[i][2]

\* The store the functions of the module read and write.
Store == [_context_vars |-> _context_vars, cvars |-> cvars,
          iterOrder |-> iterOrder, ctx |-> ctx]

\* contextvars.ContextVar(name, default=Ellipsis) followed by
\* _context_vars[name] = var.  The new object takes place pos in the
\* iteration order of Contexts (the order is by object hash).
NewVar(s, name, pos) ==
    LET var == Len(s.cvars) + 1
        p == IF pos <= Len(s.iterOrder) THEN pos ELSE Len(s.iterOrder) IN
    [s EXCEPT !._context_vars[name] = var,
              !.cvars = Append(@, [name |-> name, default |-> Ellipsis]),
              !.iterOrder = SubSeq(@, 1, p) \o <<var>> \o SubSeq(@, p + 1, Len(@))]

\* The places a new ContextVar called name can take: the end, or the front
\* when another object of that name exists (only the order among objects of
\* one name is observable).
Places(s, name) ==
    {Len(s.iterOrder)} \cup
    {0 : i \in {j \in DOMAIN s.cvars : s.cvars[j].name = name}}

\* ContextVar.set(value) in Context c: the Token, then the new store.
TokenFor(s, c, var) ==
    [var |-> var, ctx |-> c, used |-> FALSE,
     old |-> IF var \in DOMAIN s.ctx[c] THEN s.ctx[c][var] ELSE MISSING]
\* Mutant: the value is stored for every execution context.
VarSet_shared(s, c, var, v) ==
    [s EXCEPT !.ctx = [d \in DOMAIN @ |-> Put(@[d], var, v)]]

VarSet(s, c, var, v) == [s EXCEPT !.ctx[c] = Put(@, var, v)]

\* Mutant: a Token is of no use once the variable has been unset.
ResetError_after_unset(s, c, var, tok) ==
    IF tok.used THEN "RuntimeError"
    ELSE IF tok.var # var THEN "ValueError"
    ELSE IF tok.ctx # c THEN "ValueError"
    ELSE IF var \in DOMAIN s.ctx[c] /\ s.ctx[c][var] = Ellipsis THEN "RuntimeError"
    ELSE "none"

\* ContextVar.reset(token): the error it raises, or "none".
ResetError(s, c, var, tok) ==
    IF tok.used THEN "RuntimeError"
    ELSE IF tok.var # var THEN "ValueError"
    ELSE IF tok.ctx # c THEN "ValueError"
    ELSE "none"
\* Mutant: reset always takes the variable out of the Context.
VarReset_forgets(s, c, var, tok) == [s EXCEPT !.ctx[c] = Drop(@, var)]

VarReset(s, c, var, tok) ==
    IF tok.old = MISSING
    THEN [s EXCEPT !.ctx[c] = Drop(@, var)]
    ELSE [s EXCEPT !.ctx[c] = Put(@, var, tok.old)]

\* ------------------------------------------------------------ the module's functions
EmptyMap == [k \in {} |-> None]

\* get_contextvars: the loop over the Context, the first n ContextVars of
\* the iteration order; a later ContextVar of the same name overwrites
\* rv[key].
RECURSIVE get_contextvars_loop(_, _, _, _)
get_contextvars_loop(s, cx, n, prefix) ==
    IF n = 0 THEN EmptyMap
    ELSE LET k == s.iterOrder[n]
             rv == get_contextvars_loop(s, cx, n - 1, prefix)
         IN IF /\ k \in DOMAIN cx
               /\ startswith(s.cvars[k].name, prefix)
               /\ cx[k] # Ellipsis
            THEN Put(rv, strip(s.cvars[k].name, prefix), cx[k])
            ELSE rv

get_contextvars(s, c, prefix) ==
    get_contextvars_loop(s, s.ctx[c], Len(s.iterOrder), prefix)

\* Mutant: the registry entries of the prefix are deleted as well.
clear_contextvars_del_entries(s, c, prefix) ==
    [s EXCEPT !.ctx[c] =
                [k \in DOMAIN @ |->
                    IF startswith(s.cvars[k].name, prefix) THEN Ellipsis ELSE @[k]],
              !._context_vars =
                [n \in DOMAIN @ |-> IF startswith(n, prefix) THEN NoVar ELSE @[n]]]

\* Mutant: every ContextVar of the Context is set to Ellipsis, whatever its name.
clear_contextvars_any_name(s, c, prefix) ==
    [s EXCEPT !.ctx[c] = [k \in DOMAIN @ |-> Ellipsis]]

\* clear_contextvars: every ContextVar of the Context whose name starts with
\* prefix is set to Ellipsis.
clear_contextvars(s, c, prefix) ==
    [s EXCEPT !.ctx[c] =
        [k \in DOMAIN @ |->
            IF startswith(s.cvars[k].name, prefix) THEN Ellipsis ELSE @[k]]]

\* One step of the loop of set_contextvars, for the first pair of
\* fr.kwargs.  at = "try": the lookup _context_vars[prefix_key]; when it
\* succeeds the step goes on to var.set(v).  at = "except": the KeyError
\* branch, which creates the ContextVar, stores it in the registry and sets it.
set_contextvars_step(s, c, fr, pos) ==
    LET k == fr.kwargs[1][1]
        v == fr.kwargs[1][2]
        prefix_key == fr.prefix \o k
        miss == fr.at = "try" /\ s._context_vars[prefix_key] = NoVar
        s1 == IF fr.at = "except" THEN NewVar(s, prefix_key, pos) ELSE s
        var == s1._context_vars[prefix_key]
    IN IF miss
       THEN [s |-> s, fr |-> [fr EXCEPT !.at = "except"]]
       ELSE [s |-> VarSet(s1, c, var, v),
             fr |-> [fr EXCEPT !.at = "try",
                               !.kwargs = Tail(@),
                               !.cvar_tokens = Append(@, <<k, TokenFor(s1, c, var)>>)]]

SetFrame(prefix, kwargs) ==
    [prefix |-> prefix, kwargs |-> kwargs, at |-> "try", cvar_tokens |-> <<>>]

\* set_contextvars run to its return: [s, cvar_tokens].
RECURSIVE set_contextvars_run(_, _, _, _)
set_contextvars_run(s, c, fr, pos) ==
    IF fr.kwargs = <<>> THEN [s |-> s, cvar_tokens |-> fr.cvar_tokens]
    ELSE LET r == set_contextvars_step(s, c, fr, pos)
         IN set_contextvars_run(r.s, c, r.fr, pos)

set_contextvars(s, c, prefix, kwargs, pos) ==
    set_contextvars_run(s, c, SetFrame(prefix, kwargs), pos)

\* var.reset(v) marks the Token v used; the same Token object may be the
\* value of a later key as well.
Used(kwargs, v) ==
    [i \in DOMAIN kwargs |->
        IF kwargs[i][2] = v THEN <<kwargs[i][1], [v EXCEPT !.used = TRUE]>> ELSE kwargs[i]]

\* Mutant: every name is looked up before any Token is reset, so that a
\* call that raises KeyError has changed nothing.
RECURSIVE reset_contextvars_checks_first(_, _, _, _)
reset_contextvars_checks_first(s, c, prefix, kwargs) ==
    IF kwargs = <<>> THEN [s |-> s, kwargs |-> <<>>, err |-> "none"]
    ELSE IF \E i \in DOMAIN kwargs : s._context_vars[prefix \o kwargs[i][1]] = NoVar
    THEN [s |-> s, kwargs |-> kwargs, err |-> "KeyError"]
    ELSE LET k == kwargs[1][1]
             v == kwargs[1][2]
             var == s._context_vars[prefix \o k]
         IN IF ResetError(s, c, var, v) # "none"
            THEN [s |-> s, kwargs |-> kwargs, err |-> ResetError(s, c, var, v)]
            ELSE LET r == reset_contextvars_checks_first(VarReset(s, c, var, v), c, prefix,
                                                         Used(Tail(kwargs), v))
                 IN [s |-> r.s, err |-> r.err,
                     kwargs |-> <<<<k, [v EXCEPT !.used = TRUE]>>>> \o r.kwargs]

\* Mutant: a key without a registry entry is skipped, as in unset_contextvars.
RECURSIVE reset_contextvars_skips(_, _, _, _)
reset_contextvars_skips(s, c, prefix, kwargs) ==
    IF kwargs = <<>> THEN [s |-> s, kwargs |-> <<>>, err |-> "none"]
    ELSE LET k == kwargs[1][1]
             v == kwargs[1][2]
             prefix_key == prefix \o k
             var == s._context_vars[prefix_key]
             r == reset_contextvars_skips(
                    IF var = NoVar THEN s ELSE VarReset(s, c, var, v), c, prefix, Tail(kwargs))
         IN IF var # NoVar /\ ResetError(s, c, var, v) # "none"
            THEN [s |-> s, kwargs |-> kwargs, err |-> ResetError(s, c, var, v)]
            ELSE [s |-> r.s, err |-> r.err,
                  kwargs |-> <<<<k, IF var = NoVar THEN v ELSE [v EXCEPT !.used = TRUE]>>>>
                                \o r.kwargs]

\* reset_contextvars: stops at the first key that raises.  KeyError comes
\* from the registry lookup, the others from ContextVar.reset.
RECURSIVE reset_contextvars(_, _, _, _)
reset_contextvars(s, c, prefix, kwargs) ==
    IF kwargs = <<>> THEN [s |-> s, kwargs |-> <<>>, err |-> "none"]
    ELSE LET k == kwargs[1][1]
             v == kwargs[1][2]
             prefix_key == prefix \o k
             var == s._context_vars[prefix_key]
         IN IF prefix_key \notin DOMAIN s._context_vars \/ var = NoVar
            THEN [s |-> s, kwargs |-> kwargs, err |-> "KeyError"]
            ELSE IF ResetError(s, c, var, v) # "none"
            THEN [s |-> s, kwargs |-> kwargs, err |-> ResetError(s, c, var, v)]
            ELSE LET r == reset_contextvars(VarReset(s, c, var, v), c, prefix,
                                            Used(Tail(kwargs), v))
                 IN [s |-> r.s, err |-> r.err,
                     kwargs |-> <<<<k, [v EXCEPT !.used = TRUE]>>>> \o r.kwargs]

\* Mutant: a key without a registry entry gets a ContextVar, as in
\* set_contextvars.
RECURSIVE unset_contextvars_creates(_, _, _, _)
unset_contextvars_creates(s, c, prefix, keys) ==
    IF keys = <<>> THEN s
    ELSE LET prefix_key == prefix \o keys[1]
             s0 == IF s._context_vars[prefix_key] = NoVar
                   THEN NewVar(s, prefix_key, Len(s.iterOrder))
                   ELSE s
             s1 == VarSet(s0, c, s0._context_vars[prefix_key], Ellipsis)
         IN unset_contextvars_creates(s1, c, prefix, Tail(keys))

\* unset_contextvars
RECURSIVE unset_contextvars(_, _, _, _)
unset_contextvars(s, c, prefix, keys) ==
    IF keys = <<>> THEN s
    ELSE LET prefix_key == prefix \o keys[1]
             s1 == IF s._context_vars[prefix_key] # NoVar
                   THEN VarSet(s, c, s._context_vars[prefix_key], Ellipsis)
                   ELSE s
         IN unset_contextvars(s1, c, prefix, Tail(keys))

\* set_current_node: _CURRENT_NODE.set(node)
set_current_node(s, c, node) == VarSet(s, c, 1, node)

\* get_current_node: _CURRENT_NODE.get(), the default when the Context has
\* no value for it.
get_current_node(s, c) ==
    IF 1 \in DOMAIN s.ctx[c] THEN s.ctx[c][1] ELSE s.cvars[1].default

\* kwargs.keys(), in order
RECURSIVE KeySeq(_)
KeySeq(kwargs) ==
    IF kwargs = <<>> THEN <<>> ELSE <<kwargs[1][1]>> \o KeySeq(Tail(kwargs))

\* saved = {k: context[k] for k in context.keys() & kwargs.keys()}
RECURSIVE Saved(_, _)
Saved(context, kwargs) ==
    IF kwargs = <<>> THEN <<>>
    ELSE LET k == kwargs[1][1]
         IN (IF k \in DOMAIN context THEN <<<<k, context[k]>>>> ELSE <<>>)
            \o Saved(context, Tail(kwargs))

\* Mutant: nothing is saved before the new values are set.
scope_enter_saves_nothing(s, c, prefix, kwargs, pos) ==
    [saved |-> <<>>, s |-> set_contextvars(s, c, prefix, kwargs, pos).s]

\* The part of log_contextvars / task_contextvars before the yield: the
\* store after set_contextvars(prefix, **kwargs), and saved.
scope_enter(s, c, prefix, kwargs, pos) ==
    LET context == get_contextvars(s, c, prefix)
    IN [saved |-> Saved(context, kwargs),
        s |-> set_contextvars(s, c, prefix, kwargs, pos).s]

\* Mutant: the finally clause does not put the saved values back.
scope_finally_no_restore(s, c, prefix, kwargs, saved, pos) ==
    unset_contextvars(s, c, prefix, KeySeq(kwargs))

\* Mutant: the finally clause clears the whole prefix before it puts the
\* saved values back.
scope_finally_clears(s, c, prefix, kwargs, saved, pos) ==
    set_contextvars(clear_contextvars(s, c, prefix), c, prefix, saved, pos).s

\* Mutant: the finally clause does not unset the keys of kwargs.
scope_finally_no_unset(s, c, prefix, kwargs, saved, pos) ==
    set_contextvars(s, c, prefix, saved, pos).s

\* The finally clause: unset_contextvars(prefix, *kwargs.keys()), then
\* set_contextvars(prefix, **saved).
scope_finally(s, c, prefix, kwargs, saved, pos) ==
    set_contextvars(unset_contextvars(s, c, prefix, KeySeq(kwargs)),
                    c, prefix, saved, pos).s

\* Mutant: no try/finally around the yield, so that an exception thrown in
\* at the yield ends the generator before the clean-up.
scope_resume_no_finally(s, c, prefix, kwargs, saved, exc, pos) ==
    IF exc # "none"
    THEN [s |-> s, ran |-> 0, exc |-> exc]
    ELSE [s |-> set_contextvars(unset_contextvars(s, c, prefix, KeySeq(kwargs)),
                                c, prefix, saved, pos).s,
          ran |-> 1, exc |-> exc]

\* try: yield / finally: the generator is resumed at the yield, by next()
\* when the body returned and by throw(exc) when it raised (exc # "none").
\* Either way the finally clause runs once, and an exception thrown in goes
\* on to the caller.
scope_resume(s, c, prefix, kwargs, saved, exc, pos) ==
    [s |-> scope_finally(s, c, prefix, kwargs, saved, pos), ran |-> 1, exc |-> exc]

\* ------------------------------------------------------------ state
Idle == [at |-> "idle"]
NoTokens == [prefix |-> <<>>, toks |-> <<>>, fresh |-> FALSE, pre |-> EmptyMap]

\* _CURRENT_NODE = contextvars.ContextVar('current_node', default=None)
_CURRENT_NODE == 1

Init ==
    /\ _context_vars = [n \in Names |-> NoVar]
    /\ cvars = <<[name |-> <<"current_", "node">>, default |-> None]>>
    /\ iterOrder = <<_CURRENT_NODE>>
    /\ ctx = [c \in Ctxs |-> EmptyMap]
    /\ alive = {"main"}
    /\ frames = [c \in Ctxs |-> <<>>]
    /\ held = [c \in Ctxs |-> NoTokens]
    /\ raised = [c \in Ctxs |-> "none"]
    /\ pc = [c \in Ctxs |-> Idle]
    /\ visible = [c \in Ctxs |-> [prefix \in Prefixes |-> EmptyMap]]
    /\ last = [op |-> "init"]
    /\ calls = 0

Top(c) == frames[c][Len(frames[c])]

\* c is running caller code: not inside a call, and no exception is on its
\* way out of the innermost scope.
Running(c) ==
    /\ c \in alive
    /\ pc[c] = Idle
    /\ frames[c] # <<>> => Top(c).status = "body"

\* Where a ContextVar made by this call may land in the iteration order.
PlacesFor(prefix, keys) ==
    {Len(cvars) + Cardinality(keys)} \cup
    {0 : i \in {j \in DOMAIN cvars : \E k \in keys : cvars[j].name = prefix \o k}}

\* The store becomes s; visible is what get_contextvars returns from then on.
Commit(s) ==
    /\ _context_vars' = s._context_vars
    /\ cvars' = s.cvars
    /\ iterOrder' = s.iterOrder
    /\ ctx' = s.ctx
    /\ visible' = [c \in Ctxs |-> [prefix \in Prefixes |-> get_contextvars(s, c, prefix)]]

Stale(c) == [held EXCEPT ![c].fresh = FALSE]

\* ------------------------------------------------------------ calls
\* The caller keeps the Tokens of a set_contextvars call when it holds none
\* that it could still reset.
Keeps(c) == \A i \in DOMAIN held[c].toks : held[c].toks[i][2].used

\* tokens = set_contextvars(prefix, **kwargs)
SetCall(c, prefix, kwargs) ==
    /\ Running(c)
    /\ calls < MaxCalls
    /\ \E pos \in PlacesFor(prefix, KeysOf(kwargs)) :
        LET r == set_contextvars(Store, c, prefix, kwargs, pos) IN
        /\ Commit(r.s)
        /\ held' = IF Keeps(c)
                   THEN [held EXCEPT ![c] =
                            [prefix |-> prefix, toks |-> r.cvar_tokens, fresh |-> TRUE,
                             pre |-> Restrict(get_contextvars(Store, c, prefix),
                                              KeysOf(kwargs))]]
                   ELSE Stale(c)
    /\ raised' = [raised EXCEPT ![c] = "none"]
    /\ last' = [op |-> "set", c |-> c, prefix |-> prefix, kwargs |-> kwargs]
    /\ calls' = calls + 1
    /\ UNCHANGED <<alive, frames, pc>>

\* unset_contextvars(prefix, *keys)
UnsetCall(c, prefix, keys) ==
    /\ Running(c)
    /\ calls < MaxCalls
    /\ Commit(unset_contextvars(Store, c, prefix, keys))
    /\ held' = Stale(c)
    /\ raised' = [raised EXCEPT ![c] = "none"]
    /\ last' = [op |-> "unset", c |-> c, prefix |-> prefix, keys |-> keys,
                seen |-> DOMAIN get_contextvars(Store, c, prefix)]
    /\ calls' = calls + 1
    /\ UNCHANGED <<alive, frames, pc>>

\* clear_contextvars(prefix)
ClearCall(c, prefix) ==
    /\ Running(c)
    /\ calls < MaxCalls
    /\ Commit(clear_contextvars(Store, c, prefix))
    /\ held' = Stale(c)
    /\ raised' = [raised EXCEPT ![c] = "none"]
    /\ last' = [op |-> "clear", c |-> c, prefix |-> prefix,
                seen |-> DOMAIN get_contextvars(Store, c, prefix)]
    /\ calls' = calls + 1
    /\ UNCHANGED <<alive, frames, pc>>

\* The **kwargs a caller makes of the Token mapping toks it keeps: the
\* mapping itself, or, when it has one key, that mapping with the Token
\* also under another key, after or before its own.
TokenArgs(prefix, toks) ==
    {toks} \cup
    UNION {{toks \o <<<<k, toks[1][2]>>>>, <<<<k, toks[1][2]>>>> \o toks} :
                k \in {j \in KeysFor(prefix) : Len(toks) = 1 /\ j # toks[1][1]}}

\* reset_contextvars(prefix, **tokens), with Tokens the caller kept
ResetCall(c, prefix) ==
    /\ Running(c)
    /\ calls < MaxCalls
    /\ held[c].toks # <<>>
    /\ \E tokens \in TokenArgs(prefix, held[c].toks) :
        LET r == reset_contextvars(Store, c, prefix, tokens) IN
        /\ Commit(r.s)
        /\ held' = [held EXCEPT
                        ![c].toks = SelectSeq(r.kwargs,
                                        LAMBDA kv : kv[1] \in KeysOf(held[c].toks)),
                        ![c].fresh = FALSE]
        /\ raised' = [raised EXCEPT ![c] = r.err]
        /\ last' = [op |-> "reset", c |-> c, prefix |-> prefix, fresh |-> held[c].fresh,
                    tokens |-> tokens,
                    seen |-> DOMAIN get_contextvars(Store, c, prefix)]
    /\ calls' = calls + 1
    /\ UNCHANGED <<alive, frames, pc>>

\* with log_contextvars(**kwargs) / task_contextvars(**kwargs): up to the yield
ScopeEnter(c, prefix, kwargs) ==
    /\ Running(c)
    /\ calls < MaxCalls
    /\ \E pos \in PlacesFor(prefix, KeysOf(kwargs)) :
        LET r == scope_enter(Store, c, prefix, kwargs, pos) IN
        /\ Commit(r.s)
        /\ frames' = [frames EXCEPT ![c] = Append(@,
                [prefix |-> prefix, kwargs |-> kwargs,
                 saved |-> r.saved, status |-> "body", exc |-> "none",
                 pre |-> get_contextvars(Store, c, prefix)])]
    /\ held' = Stale(c)
    /\ raised' = [raised EXCEPT ![c] = "none"]
    /\ last' = [op |-> "enter", c |-> c, prefix |-> prefix, kwargs |-> kwargs]
    /\ calls' = calls + 1
    /\ UNCHANGED <<alive, pc>>

\* The body of the innermost scope raises: an exception of its own, or the
\* one its last call raised.
BodyFail(c) ==
    /\ Running(c)
    /\ frames[c] # <<>>
    /\ \E e \in {"BodyError"} \cup ({raised[c]} \ {"none"}) :
        /\ frames' = [frames EXCEPT ![c][Len(frames[c])].status = "failed",
                                    ![c][Len(frames[c])].exc = e]
        /\ raised' = [raised EXCEPT ![c] = e]
    /\ last' = [op |-> "fail", c |-> c]
    /\ UNCHANGED <<_context_vars, cvars, iterOrder, ctx, visible, alive, held, pc, calls>>

\* The generator resumes after the yield: the finally clause runs, then the
\* body's exception, if any, goes on to the caller of the with statement.
ScopeExit(c, prefix) ==
    /\ c \in alive
    /\ pc[c] = Idle
    /\ frames[c] # <<>>
    /\ Top(c).prefix = prefix
    /\ LET f == Top(c)
           now == get_contextvars(Store, c, prefix) IN
        /\ \E pos \in PlacesFor(prefix, KeysOf(f.kwargs)) :
            LET r == scope_resume(Store, c, prefix, f.kwargs, f.saved, f.exc, pos) IN
            /\ Commit(r.s)
            /\ raised' = [raised EXCEPT ![c] = r.exc]
            /\ last' = [op |-> "exit", c |-> c, prefix |-> prefix, ran |-> r.ran,
                        present |-> KeysOf(f.kwargs) \cap DOMAIN f.pre,
                        absent |-> KeysOf(f.kwargs) \ DOMAIN f.pre,
                        added |-> (DOMAIN now \ DOMAIN f.pre) \ KeysOf(f.kwargs),
                        changed |-> {k \in KeysOf(f.kwargs) :
                                        \/ k \notin DOMAIN now
                                        \/ now[k] # ValueOf(f.kwargs, k)}]
        /\ frames' = [frames EXCEPT ![c] = SubSeq(@, 1, Len(@) - 1)]
    /\ held' = Stale(c)
    /\ UNCHANGED <<alive, pc, calls>>

log_contextvars(c) ==
    \/ \E kwargs \in ScopeKwargs(LOG_PREFIX) : ScopeEnter(c, LOG_PREFIX, kwargs)
    \/ ScopeExit(c, LOG_PREFIX)

task_contextvars(c) ==
    \/ \E kwargs \in ScopeKwargs(TASK_PREFIX) : ScopeEnter(c, TASK_PREFIX, kwargs)
    \/ ScopeExit(c, TASK_PREFIX)

\* A child execution context starts from a copy of its parent's Context
\* (contextvars.copy_context()), with whatever Tokens the parent hands it.
Fork(p, c) ==
    /\ Running(p)
    /\ c \notin alive
    /\ alive' = alive \cup {c}
    /\ Commit([Store EXCEPT !.ctx[c] = ctx[p]])
    /\ held' = [held EXCEPT ![c] = [held[p] EXCEPT !.fresh = FALSE]]
    /\ last' = [op |-> "fork", c |-> c, parent |-> p]
    /\ UNCHANGED <<frames, raised, pc, calls>>

Next ==
    \/ \E c \in Ctxs, prefix \in Prefixes :
            \E kwargs \in Kwargs(prefix) : SetCall(c, prefix, kwargs)
    \/ \E c \in Ctxs, prefix \in Prefixes :
            \E keys \in KeySeqs(prefix) : UnsetCall(c, prefix, keys)
    \/ \E c \in Ctxs, prefix \in Prefixes : ClearCall(c, prefix)
    \/ \E c \in Ctxs, prefix \in Prefixes : ResetCall(c, prefix)
    \/ \E c \in Ctxs : log_contextvars(c)
    \/ \E c \in Ctxs : task_contextvars(c)
    \/ \E c \in Ctxs : BodyFail(c)

Spec == Init /\ [][Next]_vars

\* ------------------------------------------------------------ two execution contexts
\* The calls of two execution contexts, one forked from the other, each
\* call running to its end before the next starts (tasks of one event loop).
ForkKwargs(prefix) ==
    {<<<<k, v>>>> : k \in {<<"x">>}, v \in ValuesFor(prefix) \ {Ellipsis}}

NextFork ==
    \/ \E p \in Ctxs, c \in Ctxs : Fork(p, c)
    \/ \E c \in Ctxs, prefix \in Prefixes :
            \E kwargs \in ForkKwargs(prefix) : SetCall(c, prefix, kwargs)
    \/ \E c \in Ctxs, prefix \in Prefixes : UnsetCall(c, prefix, <<<<"x">>>>)
    \/ \E c \in Ctxs, prefix \in Prefixes : ClearCall(c, prefix)
    \/ \E c \in Ctxs, prefix \in Prefixes : ResetCall(c, prefix)
    \/ \E c \in Ctxs, prefix \in Prefixes :
            \E kwargs \in ForkKwargs(prefix) : ScopeEnter(c, prefix, kwargs)
    \/ \E c \in Ctxs, prefix \in Prefixes : ScopeExit(c, prefix)

SpecFork == Init /\ [][NextFork]_vars

\* ------------------------------------------------------------ the current node
\* set_current_node(node)
SetNodeCall(c, node) ==
    /\ Running(c)
    /\ calls < MaxCalls
    /\ Commit(set_current_node(Store, c, node))
    /\ held' = Stale(c)
    /\ raised' = [raised EXCEPT ![c] = "none"]
    /\ last' = [op |-> "node", c |-> c, node |-> node]
    /\ calls' = calls + 1
    /\ UNCHANGED <<alive, frames, pc>>

\* The calls of two execution contexts, among them set_current_node and
\* calls whose prefix argument is "current_".
NodePrefixes == {LOG_PREFIX, CURRENT_PREFIX}
NodeKwargs(prefix) ==
    IF prefix = CURRENT_PREFIX THEN Kwargs(CURRENT_PREFIX) ELSE ForkKwargs(prefix)

NextNode ==
    \/ \E p \in Ctxs, c \in Ctxs : Fork(p, c)
    \/ \E c \in Ctxs, node \in Nodes : SetNodeCall(c, node)
    \/ \E c \in Ctxs, prefix \in NodePrefixes :
            \E kwargs \in NodeKwargs(prefix) : SetCall(c, prefix, kwargs)
    \/ \E c \in Ctxs, prefix \in NodePrefixes :
            \E keys \in KeySeqs(prefix) : UnsetCall(c, prefix, keys)
    \/ \E c \in Ctxs, prefix \in NodePrefixes : ClearCall(c, prefix)
    \/ \E c \in Ctxs, prefix \in NodePrefixes : ResetCall(c, prefix)

SpecNode == Init /\ [][NextNode]_vars

\* ------------------------------------------------------------ two threads
\* Two threads, each with a Context of its own, share the registry.  A
\* thread switch can fall between the failed lookup of set_contextvars
\* (line 63) and the insertion that follows it (line 66).
InitThreads ==
    /\ _context_vars = [n \in Names |-> NoVar]
    /\ cvars = <<[name |-> <<"current_", "node">>, default |-> None]>>
    /\ iterOrder = <<_CURRENT_NODE>>
    /\ ctx = [c \in Ctxs |-> EmptyMap]
    /\ alive = Ctxs
    /\ frames = [c \in Ctxs |-> <<>>]
    /\ held = [c \in Ctxs |-> NoTokens]
    /\ raised = [c \in Ctxs |-> "none"]
    /\ pc = [c \in Ctxs |-> Idle]
    /\ visible = [c \in Ctxs |-> [prefix \in Prefixes |-> EmptyMap]]
    /\ last = [op |-> "init"]
    /\ calls = 0

\* c calls set_contextvars(prefix, **kwargs).
SetBegin(c, prefix, kwargs) ==
    /\ Running(c)
    /\ calls < MaxCalls
    /\ pc' = [pc EXCEPT ![c] = SetFrame(prefix, kwargs)]
    /\ last' = [op |-> "call", c |-> c, prefix |-> prefix]
    /\ calls' = calls + 1
    /\ UNCHANGED <<_context_vars, cvars, iterOrder, ctx, visible, alive, frames, held,
                   raised>>

\* c takes one step of the loop of set_contextvars.
SetStep(c) ==
    /\ c \in alive
    /\ pc[c].at # "idle"
    /\ pc[c].kwargs # <<>>
    /\ \E pos \in Places(Store, pc[c].prefix \o pc[c].kwargs[1][1]) :
        LET r == set_contextvars_step(Store, c, pc[c], pos) IN
        /\ Commit(r.s)
        /\ pc' = [pc EXCEPT ![c] = r.fr]
    /\ last' = [op |-> "step", c |-> c, prefix |-> pc[c].prefix]
    /\ UNCHANGED <<alive, frames, held, raised, calls>>

\* set_contextvars returns cvar_tokens to c.
SetReturn(c) ==
    /\ c \in alive
    /\ pc[c].at # "idle"
    /\ "saved" \notin DOMAIN pc[c]
    /\ pc[c].kwargs = <<>>
    /\ pc' = [pc EXCEPT ![c] = Idle]
    /\ held' = IF Keeps(c)
               THEN [held EXCEPT ![c] =
                        [prefix |-> pc[c].prefix, toks |-> pc[c].cvar_tokens,
                         fresh |-> TRUE, pre |-> EmptyMap]]
               ELSE Stale(c)
    /\ raised' = [raised EXCEPT ![c] = "none"]
    /\ last' = [op |-> "return", c |-> c, prefix |-> pc[c].prefix]
    /\ UNCHANGED <<_context_vars, cvars, iterOrder, ctx, visible, alive, frames, calls>>

NextThreads ==
    \/ \E c \in Ctxs, prefix \in Prefixes :
            \E kwargs \in Kwargs(prefix) : SetBegin(c, prefix, kwargs)
    \/ \E c \in Ctxs : SetStep(c)
    \/ \E c \in Ctxs : SetReturn(c)
    \/ \E c \in Ctxs, prefix \in Prefixes :
            \E keys \in KeySeqs(prefix) : UnsetCall(c, prefix, keys)
    \/ \E c \in Ctxs, prefix \in Prefixes : ClearCall(c, prefix)

SpecThreads == InitThreads /\ [][NextThreads]_vars

\* ------------------------------------------------------------ scopes of two threads
\* The kwargs the two threads pass: one key, used by both for the first time.
RaceKwargs == {<<<<<<"x">>, "a">>>>, <<<<<<"x">>, None>>>>}

\* c enters with log_contextvars(**kwargs) / task_contextvars(**kwargs):
\* context and saved are computed, then set_contextvars is called.
ScopeBegin(c, prefix, kwargs) ==
    /\ Running(c)
    /\ calls < MaxCalls
    /\ pc' = [pc EXCEPT ![c] =
                [prefix |-> prefix, kwargs |-> kwargs, at |-> "try", cvar_tokens |-> <<>>,
                 entries |-> kwargs,
                 saved |-> Saved(get_contextvars(Store, c, prefix), kwargs),
                 pre |-> get_contextvars(Store, c, prefix)]]
    /\ last' = [op |-> "call", c |-> c, prefix |-> prefix]
    /\ calls' = calls + 1
    /\ UNCHANGED <<_context_vars, cvars, iterOrder, ctx, visible, alive, frames, held,
                   raised>>

\* set_contextvars has returned inside the context manager, which yields:
\* the body of the with statement starts.
ScopeYield(c) ==
    /\ c \in alive
    /\ pc[c].at # "idle"
    /\ "saved" \in DOMAIN pc[c]
    /\ pc[c].kwargs = <<>>
    /\ pc' = [pc EXCEPT ![c] = Idle]
    /\ frames' = [frames EXCEPT ![c] = Append(@,
            [prefix |-> pc[c].prefix, kwargs |-> pc[c].entries, saved |-> pc[c].saved,
             status |-> "body", exc |-> "none", pre |-> pc[c].pre])]
    /\ held' = Stale(c)
    /\ raised' = [raised EXCEPT ![c] = "none"]
    /\ last' = [op |-> "enter", c |-> c, prefix |-> pc[c].prefix, kwargs |-> pc[c].entries]
    /\ UNCHANGED <<_context_vars, cvars, iterOrder, ctx, visible, alive, calls>>

\* Two threads that set keys and open scopes on one prefix.  The registry
\* lookups of the exit never fail (the names of saved have entries), so
\* the exit is taken in one step.
NextRace ==
    \/ \E c \in Ctxs : \E kwargs \in RaceKwargs : SetBegin(c, LOG_PREFIX, kwargs)
    \/ \E c \in Ctxs : \E kwargs \in RaceKwargs : ScopeBegin(c, LOG_PREFIX, kwargs)
    \/ \E c \in Ctxs : SetStep(c)
    \/ \E c \in Ctxs : SetReturn(c)
    \/ \E c \in Ctxs : ScopeYield(c)
    \/ \E c \in Ctxs : ScopeExit(c, LOG_PREFIX)

SpecRace == InitThreads /\ [][NextRace]_vars

\* ------------------------------------------------------------ properties
\* What get_contextvars(prefix) returns in execution context c.
View(c, prefix) == visible[c][prefix]
\* The value of key k in mapping m, MISSING when m has no key k.
At(m, k) == IF k \in DOMAIN m THEN m[k] ELSE MISSING
\* The frame a with statement of c has just left.
Left(c) == frames[c][Len(frames[c])]
\* The step leaves a log_/task_contextvars scope of c on prefix.
Exits(c, prefix) == last'.op = "exit" /\ last'.c = c /\ last'.prefix = prefix

\* C1: a key of the scope's kwargs that was visible with value v0 when the
\* with statement was entered is visible with v0 once the scope is left,
\* whatever the body did in between.
C1_PresentKeyRestored ==
    [][\A c \in Ctxs, prefix \in Prefixes :
        Exits(c, prefix) =>
            \A k \in KeysOf(Left(c).kwargs) \cap DOMAIN Left(c).pre :
                At(View(c, prefix)', k) = Left(c).pre[k]]_vars

\* C1 witness: a scope was left whose key was visible before it and whose
\* body had removed or changed the value the scope gave it.
C1_Witness ==
    /\ last.op = "exit"
    /\ last.present \cap last.changed # {}

\* C2: a key of the scope's kwargs that was not visible when the with
\* statement was entered is not visible once the scope is left, whether the
\* body returned or raised.
C2_AbsentKeyRemoved ==
    [][\A c \in Ctxs, prefix \in Prefixes :
        Exits(c, prefix) =>
            \A k \in KeysOf(Left(c).kwargs) \ DOMAIN Left(c).pre :
                k \notin DOMAIN View(c, prefix)']_vars

\* C2 witness: a scope whose body raised was left, and one of its keys had
\* not been visible before it.
C2_Witness ==
    /\ last.op = "exit"
    /\ last.absent # {}
    /\ raised[last.c] # "none"

\* C4: a scope is closed by no step but the one that runs its finally
\* clause, once, whether the body returned or raised; that step leaves
\* every key of kwargs with its saved value, or unset, and hands the
\* exception of a failed body, and no other, to the caller of the with
\* statement.
C4_ExitOnceFailureForwarded ==
    /\ [][\A c \in Ctxs :
            Len(frames'[c]) < Len(frames[c]) =>
                /\ last'.op = "exit" /\ last'.c = c /\ last'.ran = 1
                /\ frames'[c] = SubSeq(frames[c], 1, Len(frames[c]) - 1)]_vars
    /\ [][\A c \in Ctxs, prefix \in Prefixes :
            Exits(c, prefix) =>
                /\ raised'[c] = Left(c).exc
                /\ (Left(c).status = "failed") = (raised'[c] # "none")
                /\ \A k \in KeysOf(Left(c).kwargs) :
                        At(View(c, prefix)', k) =
                            IF k \in KeysOf(Left(c).saved)
                            THEN ValueOf(Left(c).saved, k) ELSE MISSING]_vars

\* C4 witness: a scope was left with the exception that a call in its body
\* had raised.
C4_Witness ==
    /\ last.op = "exit"
    /\ last.ran = 1
    /\ raised[last.c] \notin {"none", "BodyError"}

\* The frame of the scope c has just entered.
Entered(c) == frames'[c][Len(frames'[c])]
\* What a read shows for a key that was given value v.
Shown(v) == IF v = Ellipsis THEN MISSING ELSE v

\* C5: a read inside the innermost scope returns that scope's value for
\* each of its keys; once an inner scope is left, a key it shares with the
\* enclosing scope on the same prefix reads as the enclosing scope's value
\* (when it did so as the inner scope was entered); once the outermost
\* scope is left, its keys are as they were before it.
C5_Nesting ==
    [][\A c \in Ctxs, prefix \in Prefixes :
        /\ (last'.op = "enter" /\ last'.c = c /\ last'.prefix = prefix) =>
                \A k \in KeysOf(Entered(c).kwargs) :
                    At(View(c, prefix)', k) = ValueOf(Entered(c).kwargs, k)
        /\ (Exits(c, prefix) /\ Len(frames[c]) > 1) =>
                LET outer == frames[c][Len(frames[c]) - 1] IN
                \A k \in KeysOf(Left(c).kwargs) :
                    (/\ outer.prefix = prefix
                     /\ k \in KeysOf(outer.kwargs)
                     /\ At(Left(c).pre, k) = Shown(ValueOf(outer.kwargs, k)))
                    => At(View(c, prefix)', k) = ValueOf(outer.kwargs, k)
        /\ (Exits(c, prefix) /\ Len(frames[c]) = 1) =>
                \A k \in KeysOf(Left(c).kwargs) :
                    At(View(c, prefix)', k) = At(Left(c).pre, k)]_vars

\* C6 as stated: once a scope is left, get_contextvars(prefix) is the
\* mapping it was when the with statement was entered.
C6_ViewRestoredExactly ==
    [][\A c \in Ctxs, prefix \in Prefixes :
        Exits(c, prefix) => View(c, prefix)' = Left(c).pre]_vars

\* C6 as amended: once a scope is left, get_contextvars(prefix) agrees with
\* the mapping from before the with statement on every key of kwargs and on
\* every other key that the body left as it found it; the keys outside
\* kwargs are as the body left them.
C6_ViewRestoredOnUntouched ==
    [][\A c \in Ctxs, prefix \in Prefixes :
        Exits(c, prefix) =>
            LET before == View(c, prefix)
                after == View(c, prefix)'
            IN \A k \in Keys :
                /\ (k \in KeysOf(Left(c).kwargs) \/ At(before, k) = At(Left(c).pre, k))
                        => At(after, k) = At(Left(c).pre, k)
                /\ k \notin KeysOf(Left(c).kwargs) => At(after, k) = At(before, k)]_vars

\* C6 witness: a scope was left that had overwritten a visible key and
\* introduced a key that was not visible.
C6_Witness ==
    /\ last.op = "exit"
    /\ last.present # {}
    /\ last.absent # {}

\* C7: right after set_contextvars(prefix, **kwargs), get_contextvars(prefix)
\* is the mapping from before the call overridden by kwargs.
C7_SetThenRead ==
    [][\A c \in Ctxs, prefix \in Prefixes :
        (last'.op = "set" /\ last'.c = c /\ last'.prefix = prefix) =>
            /\ DOMAIN View(c, prefix)' = DOMAIN View(c, prefix) \cup KeysOf(last'.kwargs)
            /\ \A k \in DOMAIN View(c, prefix)' :
                    View(c, prefix)'[k] = IF k \in KeysOf(last'.kwargs)
                                          THEN ValueOf(last'.kwargs, k)
                                          ELSE View(c, prefix)[k]]_vars

\* C8: reset_contextvars(prefix, **tokens) with the Tokens of the
\* set_contextvars(prefix, ...) call made just before raises nothing and
\* leaves every key of that call as visible, or not, as before that call.
C8_RoundTrip ==
    [][\A c \in Ctxs, prefix \in Prefixes :
        (/\ last'.op = "reset" /\ last'.c = c /\ last'.prefix = prefix
         /\ last'.tokens = held[c].toks
         /\ held[c].fresh /\ held[c].prefix = prefix) =>
            /\ raised'[c] = "none"
            /\ \A k \in KeysOf(held[c].toks) :
                    At(View(c, prefix)', k) = At(held[c].pre, k)]_vars

\* C8 witness: such a reset has brought back a value that the set had
\* overwritten.
C8_Witness ==
    /\ last.op = "reset"
    /\ last.fresh
    /\ KeysOf(last.tokens) = KeysOf(held[last.c].toks)
    /\ last.prefix = held[last.c].prefix
    /\ raised[last.c] = "none"
    /\ \E k \in KeysOf(held[last.c].toks) : k \in DOMAIN View(last.c, last.prefix)

\* C9: a key just set through set_contextvars to a value the caller
\* supplied is in get_contextvars with that value (the key is not taken
\* for an unset one).
C9_SetValuePresent ==
    last.op = "set" =>
        \A k \in KeysOf(last.kwargs) :
            /\ k \in DOMAIN View(last.c, last.prefix)
            /\ View(last.c, last.prefix)[k] = ValueOf(last.kwargs, k)

\* C3: every name has at most one ContextVar, and it is the one the
\* registry holds; so the set of every execution context went to the
\* ContextVar of the registry.
C3_RegistrySingleton ==
    \A i \in DOMAIN cvars :
        /\ \A j \in DOMAIN cvars : cvars[i].name = cvars[j].name => i = j
        /\ i # _CURRENT_NODE => _context_vars[cvars[i].name] = i

\* C10: a call made in one execution context changes what
\* get_contextvars returns in no other; a new execution context starts
\* with what its parent sees, and creating it changes nothing for the parent.
C10_Isolation ==
    [][\A d \in alive', prefix \in Prefixes :
        /\ (last'.op # "fork" /\ last'.c # d) => View(d, prefix)' = View(d, prefix)
        /\ last'.op = "fork" =>
                View(d, prefix)' = View(IF d = last'.c THEN last'.parent ELSE d, prefix)]_vars

\* C10 witness: the forked context has just made a call, and what it sees
\* differs from what its parent sees, which is not empty.
C10_Witness ==
    /\ alive = Ctxs
    /\ last.op \in {"set", "unset", "clear", "reset", "exit"}
    /\ last.c = "child"
    /\ View("main", LOG_PREFIX) # EmptyMap
    /\ View("child", LOG_PREFIX) # View("main", LOG_PREFIX)

\* Every prefix argument of the model.
AllPrefixes == Prefixes \cup {CURRENT_PREFIX}
\* The step is a call of c on the prefixed store.
StoreCall(c) ==
    last'.op \in {"set", "unset", "clear", "reset", "enter", "exit"} /\ last'.c = c

\* C11: get_current_node returns None in a context that has no value for
\* _CURRENT_NODE; set_current_node(node) makes it return node in the
\* caller's context and changes it in no other; a forked context starts
\* with its parent's value; and no other step changes what it returns (it
\* stays the argument of the most recent set_current_node of the lineage).
C11_CurrentNode ==
    /\ [](\A c \in alive : 1 \notin DOMAIN ctx[c] => get_current_node(Store, c) = None)
    /\ [][\A c \in alive' :
            get_current_node(Store, c)' =
                IF last'.op = "node" /\ last'.c = c THEN last'.node
                ELSE IF last'.op = "fork" /\ last'.c = c
                     THEN get_current_node(Store, last'.parent)
                ELSE get_current_node(Store, c)]_vars

\* The store without the value of _CURRENT_NODE in any Context.
WithoutNode(s) == [s EXCEPT !.ctx = [c \in DOMAIN @ |-> Drop(@[c], 1)]]

\* C12: no call on the prefixed store, whatever its prefix, changes what
\* get_current_node returns; get_contextvars returns, for every prefix,
\* what it would return if _CURRENT_NODE had no value; and
\* set_current_node changes no result of get_contextvars.
C12_NodeIndependent ==
    /\ [](\A c \in alive, prefix \in AllPrefixes :
            get_contextvars(Store, c, prefix) = get_contextvars(WithoutNode(Store), c, prefix))
    /\ [][\A c \in alive :
            /\ StoreCall(c) => get_current_node(Store, c)' = get_current_node(Store, c)
            /\ (last'.op = "node" /\ last'.c = c) =>
                    \A prefix \in AllPrefixes :
                        get_contextvars(Store, c, prefix)' = get_contextvars(Store, c, prefix)]_vars

\* keys as a set
Listed(keys) == {keys[i] : i \in DOMAIN keys}

\* C13: unset_contextvars(prefix, *keys) creates no ContextVar and no
\* registry entry; a second call right after it changes nothing; a key
\* without a registry entry is left as it was, and the call changes
\* nothing at all when no key has one; after the call no listed key is in
\* get_contextvars(prefix).
C13_UnsetIdempotent ==
    [][\A c \in Ctxs, prefix \in Prefixes :
        (last'.op = "unset" /\ last'.c = c /\ last'.prefix = prefix) =>
            LET keys == last'.keys
                once == unset_contextvars(Store, c, prefix, keys)
                twice == unset_contextvars(once, c, prefix, keys)
            IN /\ _context_vars' = _context_vars
               /\ cvars' = cvars
               /\ ctx' = once.ctx
               /\ twice = once
               /\ get_contextvars(twice, c, prefix) = View(c, prefix)'
               /\ \A k \in Listed(keys) :
                    /\ k \notin DOMAIN View(c, prefix)'
                    /\ _context_vars[prefix \o k] = NoVar => At(View(c, prefix), k) = MISSING
               /\ (\A k \in Listed(keys) : _context_vars[prefix \o k] = NoVar)
                    => ctx' = ctx]_vars

\* C13 witness: an unset has just taken a visible value away, in a call
\* that also listed a key without a registry entry.
C13_Witness ==
    /\ last.op = "unset"
    /\ Listed(last.keys) \cap last.seen # {}
    /\ \E k \in Listed(last.keys) : _context_vars[last.prefix \o k] = NoVar

\* C14: right after clear_contextvars(prefix), get_contextvars(prefix) is
\* empty in the caller's context, whatever came before; what
\* get_contextvars returns for the other prefix is unchanged; the registry
\* keeps every entry.
C14_ClearEmpties ==
    [][\A c \in Ctxs, prefix \in Prefixes :
        (last'.op = "clear" /\ last'.c = c /\ last'.prefix = prefix) =>
            /\ View(c, prefix)' = EmptyMap
            /\ \A other \in Prefixes \ {prefix} : View(c, other)' = View(c, other)
            /\ _context_vars' = _context_vars
            /\ cvars' = cvars]_vars

\* C14 witness: a clear has just emptied a prefix that had visible keys,
\* while the other prefix has some.
C14_Witness ==
    /\ last.op = "clear"
    /\ last.seen # {}
    /\ View(last.c, last.prefix) = EmptyMap
    /\ \E other \in Prefixes \ {last.prefix} : View(last.c, other) # EmptyMap

\* C15: a name that has a registry entry keeps it, and the entry keeps
\* referring to the ContextVar it was created with, through set, unset,
\* reset, clear and scope enter and exit; ContextVars, once created, stay
\* as they are; and no two ContextVars have the same name.
C15_RegistryMonotone ==
    /\ [](\A i \in DOMAIN cvars, j \in DOMAIN cvars :
            cvars[i].name = cvars[j].name => i = j)
    /\ [][/\ \A n \in Names :
                _context_vars[n] # NoVar => _context_vars'[n] = _context_vars[n]
           /\ Len(cvars') >= Len(cvars)
           /\ SubSeq(cvars', 1, Len(cvars)) = cvars]_vars

\* C15 witness: a clear, an unset or a scope exit has just taken the value
\* of a key away, and the name still has its registry entry.
C15_Witness ==
    /\ last.op \in {"clear", "unset", "exit"}
    /\ \E k \in KeysFor(last.prefix) :
            /\ _context_vars[last.prefix \o k] # NoVar
            /\ k \notin DOMAIN View(last.c, last.prefix)
            /\ cvars[_context_vars[last.prefix \o k]].name = last.prefix \o k

\* The first position of tokens whose name has no registry entry under
\* prefix, 0 when every name has one.
FirstUnknown(prefix, tokens) ==
    LET unknown == {i \in DOMAIN tokens : _context_vars[prefix \o tokens[i][1]] = NoVar}
    IN IF unknown = {} THEN 0 ELSE CHOOSE i \in unknown : \A j \in unknown : i <= j
\* ContextVar.reset raises for none of the first n tokens.
ResetsCleanly(c, prefix, tokens, n) ==
    \A j \in 1..n :
        ResetError(Store, c, _context_vars[prefix \o tokens[j][1]], tokens[j][2]) = "none"

\* C16: reset_contextvars(prefix, **tokens) that comes to a key whose
\* name has no registry entry raises KeyError to its caller, and makes no
\* registry entry and no ContextVar.
C16_ResetUnknownRaises ==
    [][\A c \in Ctxs, prefix \in Prefixes :
        (last'.op = "reset" /\ last'.c = c /\ last'.prefix = prefix) =>
            LET tokens == last'.tokens
                i == FirstUnknown(prefix, tokens)
            IN (i # 0 /\ ResetsCleanly(c, prefix, tokens, i - 1)) =>
                    /\ raised'[c] = "KeyError"
                    /\ _context_vars' = _context_vars
                    /\ cvars' = cvars]_vars

\* C16 witness: a reset has just raised KeyError.
C16_Witness ==
    /\ last.op = "reset"
    /\ raised[last.c] = "KeyError"
    /\ FirstUnknown(last.prefix, last.tokens) # 0

\* C17: the first reset_contextvars(prefix, **tokens) with the Tokens a
\* set_contextvars(prefix, ...) call of the same execution context
\* returned raises nothing and leaves every key of that call as visible,
\* or not, as it was right before that set, whatever set, unset, clear
\* and scope calls were made in between.
C17_TokensSurvive ==
    [][\A c \in Ctxs, prefix \in Prefixes :
        (/\ last'.op = "reset" /\ last'.c = c /\ last'.prefix = prefix
         /\ held[c].prefix = prefix
         /\ last'.tokens = held[c].toks
         /\ \A i \in DOMAIN held[c].toks :
                ~held[c].toks[i][2].used /\ held[c].toks[i][2].ctx = c) =>
            /\ raised'[c] = "none"
            /\ \A i \in DOMAIN held'[c].toks : held'[c].toks[i][2].used
            /\ \A k \in KeysOf(held[c].toks) :
                    At(View(c, prefix)', k) = At(held[c].pre, k)]_vars

\* C17 witness: Tokens were reset after other calls had come between the
\* set and the reset, and the reset took away a value that was visible
\* just before it.
C17_Witness ==
    /\ last.op = "reset"
    /\ ~last.fresh
    /\ KeysOf(last.tokens) = KeysOf(held[last.c].toks)
    /\ last.prefix = held[last.c].prefix
    /\ raised[last.c] = "none"
    /\ \E k \in KeysOf(held[last.c].toks) \cap last.seen :
            k \notin DOMAIN View(last.c, last.prefix)

\* C18: in every interleaving of the calls of two threads, a scope that
\* is left gives each key of its kwargs the value it had when the with
\* statement was entered, and no value when it had none.
C18_ScopeRestoredUnderRace ==
    [][\A c \in Ctxs, prefix \in Prefixes :
        Exits(c, prefix) =>
            \A k \in KeysOf(Left(c).kwargs) :
                At(View(c, prefix)', k) = At(Left(c).pre, k)]_vars

\* C19: the step that enters a scope and the step that leaves it change
\* the value of no key of the prefix outside the scope's kwargs, and of no
\* key of the other prefix; so what the body did to a key outside kwargs
\* is there after the scope.
C19_ScopeFrame ==
    [][\A c \in Ctxs, prefix \in Prefixes :
        LET enters == last'.op = "enter" /\ last'.c = c /\ last'.prefix = prefix
            entries == IF enters THEN KeysOf(last'.kwargs) ELSE KeysOf(Left(c).kwargs)
        IN (enters \/ Exits(c, prefix)) =>
            /\ \A k \in Keys \ entries :
                    At(View(c, prefix)', k) = At(View(c, prefix), k)
            /\ \A other \in Prefixes \ {prefix} :
                    View(c, other)' = View(c, other)]_vars

\* C19 witness: a scope was left, and a key outside its kwargs that the
\* body had added is visible.
C19_Witness ==
    /\ last.op = "exit"
    /\ last.added # {}
    /\ last.added \subseteq DOMAIN View(last.c, last.prefix)

\* C20: when reset_contextvars(prefix, **tokens) fails at a key whose
\* name has no registry entry, the keys before it have been reset (each
\* is as it was before the set that made its Token, and the Token is
\* used), the keys after it are as they were, and the Contexts are those
\* of a reset of the keys before it alone.
C20_ResetPartial ==
    [][\A c \in Ctxs, prefix \in Prefixes :
        (last'.op = "reset" /\ last'.c = c /\ last'.prefix = prefix) =>
            LET tokens == last'.tokens
                i == FirstUnknown(prefix, tokens)
                before == {tokens[j][1] : j \in 1..(i - 1)}
                after == {tokens[j][1] : j \in (i + 1)..Len(tokens)}
            IN (i # 0 /\ ResetsCleanly(c, prefix, tokens, i - 1)) =>
                    /\ raised'[c] = "KeyError"
                    /\ \A k \in before \cap KeysOf(held[c].toks) :
                            /\ At(View(c, prefix)', k) = At(held[c].pre, k)
                            /\ \A j \in DOMAIN held'[c].toks :
                                    held'[c].toks[j][1] = k => held'[c].toks[j][2].used
                    /\ \A k \in after \ before :
                            At(View(c, prefix)', k) = At(View(c, prefix), k)
                    /\ before = {} => (ctx' = ctx /\ held'[c].toks = held[c].toks)
                    /\ ctx' = reset_contextvars(Store, c, prefix,
                                                SubSeq(tokens, 1, i - 1)).s.ctx]_vars

\* C20 witness: a reset has just raised KeyError at its second key, after
\* it had taken away the visible value of its first.
C20_Witness ==
    /\ last.op = "reset"
    /\ raised[last.c] = "KeyError"
    /\ FirstUnknown(last.prefix, last.tokens) = 2
    /\ last.tokens[1][1] \in last.seen
    /\ last.tokens[1][1] \notin DOMAIN View(last.c, last.prefix)

====
